---------------------------- MODULE Spec2Model ----------------------------
(***************************************************************************)
(* A model of the Python -> Lua translator of src/src/transpiler.py:       *)
(* snake_to_camel, PyToLua (statement visitors, expr, binop, cmpop) and    *)
(* transpile_file.                                                         *)
(*                                                                         *)
(* Identifiers are sequences of one-character strings, so that             *)
(* str.split and str.capitalize are computed character by character.      *)
(* Emitted Lua text is a TLA+ string.  Syntax nodes are records carrying   *)
(* the field names of Python's ast module.                                 *)
(***************************************************************************)
EXTENDS Integers, Sequences, FiniteSets, TLC

VARIABLES
    tree,       \* the ast.Module handed to PyToLua.visit (transpile_file)
    stack,      \* pending work of the recursive descent, innermost first
    lines,      \* PyToLua.lines
    indent,     \* PyToLua.indent
    imports,    \* PyToLua.imports: local name -> <<module, original name>>
    has_main,   \* PyToLua.has_main
    status,     \* where the run is: running / failed / done / written
    dst,        \* the output file of transpile_file
    input,      \* argument of the function under study (SpecName, SpecExpr)
    result      \* its return value

vars == <<tree, stack, lines, indent, imports, has_main, status, dst, input, result>>

-----------------------------------------------------------------------------
(* Bounds of the model *)

\* longest identifier given to snake_to_camel
MaxNameLen == 4
\* most nodes in an expression given to PyToLua.expr
MaxExprNodes == 4
\* most statements in a Module (at all nesting levels together)
MaxNodes == 3

-----------------------------------------------------------------------------
(* Characters and strings *)

LowerLetters == <<"a","b","c","d","e","f","g","h","i","j","k","l","m",
                  "n","o","p","q","r","s","t","u","v","w","x","y","z">>
UpperLetters == <<"A","B","C","D","E","F","G","H","I","J","K","L","M",
                  "N","O","P","Q","R","S","T","U","V","W","X","Y","Z">>

\* str.upper on one character
Upper(c) ==
    IF \E i \in DOMAIN LowerLetters : LowerLetters[i] = c
    THEN UpperLetters[CHOOSE i \in DOMAIN LowerLetters : LowerLetters[i] = c]
    ELSE c

\* str.lower on one character
Lower(c) ==
    IF \E i \in DOMAIN UpperLetters : UpperLetters[i] = c
    THEN LowerLetters[CHOOSE i \in DOMAIN UpperLetters : UpperLetters[i] = c]
    ELSE c

\* the text of an identifier
RECURSIVE Str(_)
Str(s) == IF s = <<>> THEN "" ELSE s[1] \o Str(Tail(s))

\* sep.join(parts) on strings
RECURSIVE Join(_, _)
Join(parts, sep) ==
    IF parts = <<>> THEN ""
    ELSE IF Len(parts) = 1 THEN parts[1]
    ELSE parts[1] \o sep \o Join(Tail(parts), sep)

\* absent value (None) of an identifier-valued field; the parser never
\* yields an empty identifier, and `asname or name` treats both alike
NoneVal == <<>>

-----------------------------------------------------------------------------
(* snake_to_camel *)

\* name.split("_")
RECURSIVE Split(_)
Split(s) ==
    IF \A i \in DOMAIN s : s[i] # "_" THEN <<s>>
    ELSE LET i == CHOOSE k \in DOMAIN s : s[k] = "_" /\ \A j \in 1..(k-1) : s[j] # "_"
         IN  <<SubSeq(s, 1, i-1)>> \o Split(SubSeq(s, i+1, Len(s)))

\* p.capitalize(): first character upper-cased, all the others lower-cased
Capitalize(p) ==
    IF p = <<>> THEN <<>>
    ELSE <<Upper(p[1])>> \o [i \in 1..(Len(p)-1) |-> Lower(p[i+1])]

\* "".join(p.capitalize() for p in parts)
RECURSIVE JoinCapitalized(_)
JoinCapitalized(parts) ==
    IF parts = <<>> THEN <<>>
    ELSE Capitalize(parts[1]) \o JoinCapitalized(Tail(parts))

snake_to_camel(name) ==
    LET parts == Split(name)
    IN  IF parts = <<>> THEN name
        ELSE parts[1] \o JoinCapitalized(Tail(parts))

-----------------------------------------------------------------------------
(* Identifiers used by the inputs *)

CcLib      == <<"c","c","_","l","i","b">>
Os         == <<"o","s">>
Peripheral == <<"p","e","r","i","p","h","e","r","a","l">>
Device     == <<"d","e","v","i","c","e">>
GetNames   == <<"g","e","t","_","n","a","m","e","s">>
Wrap       == <<"w","r","a","p">>
MainName   == <<"m","a","i","n">>
FName      == <<"f">>
XName      == <<"x">>
KName      == <<"k">>

-----------------------------------------------------------------------------
(* Expression nodes (ast.expr) *)

Constant(v)        == [kind |-> "Constant", value |-> v]
StrValue(t)        == [type |-> "str", str |-> t]
IntValue(n)        == [type |-> "int", int |-> n]
Name(id)           == [kind |-> "Name", id |-> id]
Attribute(v, a)    == [kind |-> "Attribute", value |-> v, attr |-> a]
BinOp(l, op, r)    == [kind |-> "BinOp", left |-> l, op |-> op, right |-> r]
UnaryOp(op, e)     == [kind |-> "UnaryOp", op |-> op, operand |-> e]
Compare(l, ops, c) == [kind |-> "Compare", left |-> l, ops |-> ops, comparators |-> c]
Call(f, args)      == [kind |-> "Call", func |-> f, args |-> args]
\* a list display: one of the expression kinds PyToLua.expr does not know
List(elts)         == [kind |-> "List", elts |-> elts]

\* the outcome of a call that either returns text or raises
Ok(text)  == [ok |-> TRUE, src |-> text]
Fail(msg) == [ok |-> FALSE, src |-> msg]

-----------------------------------------------------------------------------
(* PyToLua.binop, PyToLua.cmpop *)

binop(op) ==
    CASE op = "Add"  -> Ok("+")
      [] op = "Sub"  -> Ok("-")
      [] op = "Mult" -> Ok("*")
      [] op = "Div"  -> Ok("/")
      [] OTHER       -> Fail("Unsupported binop")

\* a cmpop that keeps Python's inequality sign
cmpop_python_noteq(op) ==
    CASE op = "Eq"    -> Ok("==")
      [] op = "NotEq" -> Ok("!=")
      [] op = "Lt"    -> Ok("<")
      [] op = "LtE"   -> Ok("<=")
      [] op = "Gt"    -> Ok(">")
      [] op = "GtE"   -> Ok(">=")
      [] OTHER        -> Fail("Unsupported cmpop")

cmpop(op) ==
    CASE op = "Eq"    -> Ok("==")
      [] op = "NotEq" -> Ok("~=")
      [] op = "Lt"    -> Ok("<")
      [] op = "LtE"   -> Ok("<=")
      [] op = "Gt"    -> Ok(">")
      [] op = "GtE"   -> Ok(">=")
      [] OTHER        -> Fail("Unsupported cmpop")

-----------------------------------------------------------------------------
(* PyToLua.expr *)

\* a test that rewrites the member of every imported name, whatever its origin
IsApiObject_any_origin(node, imp) ==
    /\ node.value.kind = "Name"
    /\ node.value.id \in DOMAIN imp

\* the test of the Attribute branch: the base is a Name bound by an import
\* whose recorded module is cc_lib
IsApiObject(node, imp) ==
    /\ node.value.kind = "Name"
    /\ node.value.id \in DOMAIN imp
    /\ imp[node.value.id][1] = CcLib

\* the Attribute branch once the base is translated
ExprAttribute(node, imp, value_src) ==
    IF IsApiObject(node, imp)
    THEN Ok(value_src \o "." \o Str(snake_to_camel(node.attr)))
    ELSE Ok(value_src \o "." \o Str(node.attr))

RECURSIVE Expr(_, _)
RECURSIVE ExprArgs(_, _)

\* [self.expr(a) for a in node.args]: the texts, or the first failure
ExprArgs(args, imp) ==
    IF args = <<>> THEN [ok |-> TRUE, srcs |-> <<>>, src |-> ""]
    ELSE LET first == Expr(args[1], imp)
         IN  IF ~first.ok THEN [ok |-> FALSE, srcs |-> <<>>, src |-> first.src]
             ELSE LET rest == ExprArgs(Tail(args), imp)
                  IN  IF ~rest.ok THEN rest
                      ELSE [ok |-> TRUE, srcs |-> <<first.src>> \o rest.srcs, src |-> ""]

Expr(node, imp) ==
    CASE node.kind = "Constant" ->
            IF node.value.type = "str"
            THEN Ok("\"" \o node.value.str \o "\"")
            ELSE Ok(ToString(node.value.int))
      [] node.kind = "Name" -> Ok(Str(node.id))
      [] node.kind = "Attribute" ->
            LET value_src == Expr(node.value, imp)
            IN  IF ~value_src.ok THEN value_src
                ELSE ExprAttribute(node, imp, value_src.src)
      [] node.kind = "BinOp" ->
            LET left == Expr(node.left, imp)
            IN  IF ~left.ok THEN left
                ELSE LET right == Expr(node.right, imp)
                     IN  IF ~right.ok THEN right
                         ELSE LET op == binop(node.op)
                              IN  IF ~op.ok THEN op
                                  ELSE Ok("(" \o left.src \o " " \o op.src \o " " \o right.src \o ")")
      [] node.kind = "UnaryOp" ->
            LET operand == Expr(node.operand, imp)
            IN  IF ~operand.ok THEN operand
                ELSE IF node.op = "USub" THEN Ok("(-" \o operand.src \o ")")
                ELSE Fail("Only unary minus supported")
      [] node.kind = "Compare" ->
            IF Len(node.ops) # 1 \/ Len(node.comparators) # 1
            THEN Fail("Only simple comparisons supported")
            ELSE LET left == Expr(node.left, imp)
                 IN  IF ~left.ok THEN left
                     ELSE LET right == Expr(node.comparators[1], imp)
                          IN  IF ~right.ok THEN right
                              ELSE LET op == cmpop(node.ops[1])
                                   IN  IF ~op.ok THEN op
                                       ELSE Ok("(" \o left.src \o " " \o op.src \o " " \o right.src \o ")")
      [] node.kind = "Call" ->
            LET func == Expr(node.func, imp)
            IN  IF ~func.ok THEN func
                ELSE LET args == ExprArgs(node.args, imp)
                     IN  IF ~args.ok THEN Fail(args.src)
                         ELSE Ok(func.src \o "(" \o Join(args.srcs, ", ") \o ")")
      [] OTHER -> Fail("Unsupported expression")

-----------------------------------------------------------------------------
(* PyToLua.visit_ImportFrom, PyToLua.visit_Import: the bindings they record *)

Alias(name, asname) == [name |-> name, asname |-> asname]

\* alias.asname or alias.name
LocalName(alias) == IF alias.asname # NoneVal THEN alias.asname ELSE alias.name

\* self.imports[local] = value
Bind(imp, local, value) ==
    [n \in (DOMAIN imp) \cup {local} |-> IF n = local THEN value ELSE imp[n]]

EmptyImports == [n \in {} |-> <<>>]

\* the loop of visit_ImportFrom over node.names
RECURSIVE BindImportFrom(_, _, _)
BindImportFrom(imp, module, names) ==
    IF names = <<>> THEN imp
    ELSE BindImportFrom(Bind(imp, LocalName(names[1]), <<module, names[1].name>>),
                        module, Tail(names))

\* the loop of visit_Import over node.names
RECURSIVE BindImport(_, _)
BindImport(imp, names) ==
    IF names = <<>> THEN imp
    ELSE BindImport(Bind(imp, LocalName(names[1]), <<names[1].name, NoneVal>>),
                    Tail(names))

-----------------------------------------------------------------------------
(* Inputs of the two functions studied on their own *)

NameAlphabet == {"a", "B", "_"}

\* every identifier of at most MaxNameLen characters over NameAlphabet
NameInputs == UNION {[1..n -> NameAlphabet] : n \in 0..MaxNameLen}

ExprAtoms ==
    { Name(XName), Name(Peripheral), Name(Device),
      Constant(IntValue(1)), Constant(StrValue("s")), List(<<>>) }

MemberNames == {GetNames, Wrap}
BinOps   == {"Add", "Sub", "Mult", "Div", "Mod"}
UnaryOps == {"USub", "Not"}
CmpOps   == {"Eq", "NotEq", "Lt", "LtE", "Gt", "GtE", "Is"}
\* operator lists of chained comparisons (a < b <= c, a == b == c)
ChainedOps == {<<"Lt", "LtE">>, <<"Eq", "Eq">>}

\* what an expression node is besides its sub-expressions, by their number
ExprShapes(arity) ==
    CASE arity = 1 ->
            {[kind |-> "Attribute", attr |-> a] : a \in MemberNames}
            \cup {[kind |-> "UnaryOp", op |-> op] : op \in UnaryOps}
            \cup {[kind |-> "Call"]}
      [] arity = 2 ->
            {[kind |-> "BinOp", op |-> op] : op \in BinOps}
            \cup {[kind |-> "Compare", ops |-> <<op>>] : op \in CmpOps}
            \cup {[kind |-> "Call"]}
      [] arity = 3 ->
            {[kind |-> "Compare", ops |-> ops] : ops \in ChainedOps}
            \cup {[kind |-> "Call"]}

\* the node of a shape over its sub-expressions
Compose(shape, parts) ==
    CASE shape.kind = "Attribute" -> Attribute(parts[1], shape.attr)
      [] shape.kind = "UnaryOp"   -> UnaryOp(shape.op, parts[1])
      [] shape.kind = "BinOp"     -> BinOp(parts[1], shape.op, parts[2])
      [] shape.kind = "Compare"   -> Compare(parts[1], shape.ops, Tail(parts))
      [] shape.kind = "Call"      -> Call(parts[1], Tail(parts))

\* the ways to share m nodes among one, two or three sub-expressions
SplitsOf(m) ==
    {<<m>>}
    \cup {<<i, m - i>> : i \in 1..(m-1)}
    \cup {<<k[1], k[2], m - k[1] - k[2]>> :
             k \in {kk \in (1..m) \X (1..m) : kk[1] + kk[2] < m}}

\* the sub-expression lists of a split; smaller[k] is the set of
\* expressions of k nodes
PartsFor(smaller, split) ==
    CASE Len(split) = 1 -> {<<e>> : e \in smaller[split[1]]}
      [] Len(split) = 2 -> {<<e, f>> : e \in smaller[split[1]], f \in smaller[split[2]]}
      [] Len(split) = 3 -> {<<e, f, g>> : e \in smaller[split[1]], f \in smaller[split[2]],
                                           g \in smaller[split[3]]}

\* the expressions of exactly n nodes (n > 1), given those of fewer
ExprsOfSize(smaller, n) ==
    UNION {{Compose(shape, parts) :
                shape \in ExprShapes(Len(split)), parts \in PartsFor(smaller, split)}
           : split \in SplitsOf(n-1)}

\* <<expressions of 1 node, ..., expressions of n nodes>>
RECURSIVE ExprsUpTo(_)
ExprsUpTo(n) ==
    IF n = 1 THEN <<ExprAtoms>>
    ELSE LET smaller == ExprsUpTo(n-1)
         IN  Append(smaller, ExprsOfSize(smaller, n))

\* the expressions of fewer than MaxExprNodes nodes, by size
SmallerExprs == ExprsUpTo(MaxExprNodes - 1)

\* e is an expression of at most MaxExprNodes nodes: an atom, or a shape
\* over smaller expressions
IsExprInput(e) ==
    \/ e \in ExprAtoms
    \/ \E n \in 2..MaxExprNodes : \E split \in SplitsOf(n-1) :
          \E shape \in ExprShapes(Len(split)) :
             \E parts \in PartsFor(SmallerExprs, split) : e = Compose(shape, parts)

\* binding maps an import statement leaves behind: none,
\* `from cc_lib import peripheral`, `import os as peripheral`
ImportMaps ==
    { EmptyImports,
      BindImportFrom(EmptyImports, CcLib, <<Alias(Peripheral, NoneVal)>>),
      BindImport(EmptyImports, <<Alias(Os, Peripheral)>>) }

\* the translator's own state, untouched while a function is studied alone
NoRun ==
    /\ tree = <<>>
    /\ stack = <<>>
    /\ lines = <<>>
    /\ indent = 0
    /\ has_main = FALSE
    /\ dst = [exists |-> FALSE, text |-> ""]

-----------------------------------------------------------------------------
(* snake_to_camel on its own *)

InitName ==
    /\ NoRun
    /\ imports = EmptyImports
    /\ input \in NameInputs
    /\ result = <<>>
    /\ status = "ready"

CallSnakeToCamel ==
    /\ status = "ready"
    /\ result' = snake_to_camel(input)
    /\ status' = "returned"
    /\ UNCHANGED <<tree, stack, lines, indent, imports, has_main, dst, input>>

NextName == CallSnakeToCamel

SpecName == InitName /\ [][NextName]_vars

-----------------------------------------------------------------------------
(* PyToLua.expr on its own, under each binding map *)

InitExpr ==
    /\ NoRun
    /\ imports \in ImportMaps
    /\ IsExprInput(input)
    /\ result = Fail("")
    /\ status = "ready"

CallExpr ==
    /\ status = "ready"
    /\ result' = Expr(input, imports)
    /\ status' = "returned"
    /\ UNCHANGED <<tree, stack, lines, indent, imports, has_main, dst, input>>

NextExpr == CallExpr

SpecExpr == InitExpr /\ [][NextExpr]_vars

-----------------------------------------------------------------------------
(* Statement nodes (ast.stmt, ast.Module, ast.arguments) *)

Module(body)             == [kind |-> "Module", body |-> body]
Assign(targets, value)   == [kind |-> "Assign", targets |-> targets, value |-> value]
ExprStmt(value)          == [kind |-> "Expr", value |-> value]
If(test, body, orelse)   == [kind |-> "If", test |-> test, body |-> body, orelse |-> orelse]
\* the fields visit_While reads
While(test, body)        == [kind |-> "While", test |-> test, body |-> body]
FunctionDef(name, a, b)  == [kind |-> "FunctionDef", name |-> name, args |-> a, body |-> b]
ImportFrom(module, ns)   == [kind |-> "ImportFrom", module |-> module, names |-> ns]
Import(ns)               == [kind |-> "Import", names |-> ns]
\* statement kinds PyToLua has no visit_ method for
Pass                     == [kind |-> "Pass"]
Return(value)            == [kind |-> "Return", value |-> value]
For(target, iter, b, o)  == [kind |-> "For", target |-> target, iter |-> iter,
                             body |-> b, orelse |-> o]

Arg(name) == [arg |-> name]
\* ast.arguments: positional parameters, the name of *vararg (or None),
\* keyword-only parameters, default values of the positional ones
Arguments(args, vararg, kwonlyargs, defaults) ==
    [args |-> args, vararg |-> vararg, kwonlyargs |-> kwonlyargs, defaults |-> defaults]

-----------------------------------------------------------------------------
(* The Modules translated *)

\* x = 1
SingleAssign == Assign(<<Name(XName)>>, Constant(IntValue(1)))
\* x = x = 1
MultiAssign  == Assign(<<Name(XName), Name(XName)>>, Constant(IntValue(1)))
\* peripheral.get_names()
ApiCall      == ExprStmt(Call(Attribute(Name(Peripheral), GetNames), <<>>))
\* []
ListStmt     == ExprStmt(List(<<>>))
\* from cc_lib import peripheral
FromCcLib    == ImportFrom(CcLib, <<Alias(Peripheral, NoneVal)>>)
\* import os as peripheral
ImportOs     == Import(<<Alias(Os, Peripheral)>>)
\* return []
ReturnList   == Return(List(<<>>))

SimpleStmts ==
    {SingleAssign, MultiAssign, ApiCall, ListStmt, FromCcLib, ImportOs, Pass, ReturnList}

\* def main():  def f(x):  def f(x=1):  def f(x, *k):  def f(*, k):
FunctionHeads ==
    { <<MainName, Arguments(<<>>, NoneVal, <<>>, <<>>)>>,
      <<FName, Arguments(<<Arg(XName)>>, NoneVal, <<>>, <<>>)>>,
      <<FName, Arguments(<<Arg(XName)>>, NoneVal, <<>>, <<Constant(IntValue(1))>>)>>,
      <<FName, Arguments(<<Arg(XName)>>, KName, <<>>, <<>>)>>,
      <<FName, Arguments(<<>>, NoneVal, <<Arg(KName)>>, <<>>)>> }

\* what a compound statement is besides its bodies; only If and For may
\* come with a second body
BlockShapes(with_orelse) ==
    {[kind |-> "If"], [kind |-> "For"]}
    \cup IF with_orelse THEN {}
         ELSE {[kind |-> "While"]}
              \cup {[kind |-> "FunctionDef", name |-> h[1], args |-> h[2]] : h \in FunctionHeads}

\* the compound statement of a shape over its bodies
Block(shape, body, orelse) ==
    CASE shape.kind = "If"          -> If(Name(XName), body, orelse)
      [] shape.kind = "For"         -> For(Name(XName), Name(XName), body, orelse)
      [] shape.kind = "While"       -> While(Name(XName), body)
      [] shape.kind = "FunctionDef" -> FunctionDef(shape.name, shape.args, body)

\* the statements of exactly n nodes (n > 1), given the statement lists of
\* fewer: bodies[k+1] is the set of lists of k nodes in all, for k < n.  A
\* parsed body is never empty, an orelse may be
StmtsOfSize(bodies, n) ==
    UNION {{Block(shape, b, o) :
                shape \in BlockShapes(k > 0), b \in bodies[n-k], o \in bodies[k+1]}
           : k \in 0..(n-2)}

\* the statement lists of exactly n nodes in all (n > 0), given the
\* statements of up to n nodes and the lists of fewer
BodiesOfSize(stmts, bodies, n) ==
    UNION {{<<s>> \o rest : s \in stmts[k], rest \in bodies[n-k+1]} : k \in 1..n}

\* [stmts |-> <<statements of 1 node, ..., of n nodes>>,
\*  bodies |-> <<lists of 0 nodes, ..., of n nodes>>]
RECURSIVE TreesUpTo(_)
TreesUpTo(n) ==
    IF n = 0 THEN [stmts |-> <<>>, bodies |-> <<{<<>>}>>]
    ELSE LET smaller == TreesUpTo(n-1)
             stmts == Append(smaller.stmts,
                             IF n = 1 THEN SimpleStmts
                             ELSE StmtsOfSize(smaller.bodies, n))
         IN  [stmts |-> stmts,
              bodies |-> Append(smaller.bodies, BodiesOfSize(stmts, smaller.bodies, n))]

\* the statement lists of fewer than MaxNodes statements, by size
SmallerBodies == TreesUpTo(MaxNodes - 1).bodies

\* t is a Module of at most MaxNodes statements: no statement, or a first
\* statement (simple, or a block over its bodies) and the ones after it
IsModuleInput(t) ==
    \/ t = Module(<<>>)
    \/ \E n \in 1..MaxNodes : \E k \in 1..n : \E rest \in SmallerBodies[n-k+1] :
          \/ /\ k = 1
             /\ \E s \in SimpleStmts : t = Module(<<s>> \o rest)
          \/ /\ k > 1
             /\ \E j \in 0..(k-2) : \E shape \in BlockShapes(j > 0) :
                   \E b \in SmallerBodies[k-j] : \E o \in SmallerBodies[j+1] :
                      t = Module(<<Block(shape, b, o)>> \o rest)

-----------------------------------------------------------------------------
(* PyToLua: the output buffer *)

IndentUnit == "    "

\* "    " * n
RECURSIVE Indentation(_)
Indentation(n) == IF n <= 0 THEN "" ELSE IndentUnit \o Indentation(n - 1)

\* PyToLua.emit
emit(ls, n, text) == Append(ls, Indentation(n) \o text)

-----------------------------------------------------------------------------
(* One run of transpile_file: PyToLua().visit(tree), then write_text.      *)
(* The recursion of the visitor is kept as a stack of frames: a statement  *)
(* still to visit, or the rest of a handler waiting for a body it loops    *)
(* over.  `depth` in a frame is bookkeeping the program does not keep: the *)
(* value self.indent had when the frame's statement (for a handler) or the *)
(* frame's body (for a statement to visit) was entered.                    *)

Frame(op, node, depth) == [op |-> op, node |-> node, depth |-> depth]

\* for stmt in body: self.visit(stmt), entered at depth d
Visits(body, d) == [i \in 1..Len(body) |-> Frame("visit", body[i], d)]

Top  == Head(stack)
Rest == Tail(stack)

Running == status = "running" /\ stack # <<>>

Visiting(kind) == Running /\ Top.op = "visit" /\ Top.node.kind = kind

\* the kinds PyToLua defines a visit_ method for
HandledKinds ==
    {"Module", "ImportFrom", "Import", "Expr", "Assign", "If", "While", "FunctionDef"}

Init ==
    /\ IsModuleInput(tree)
    /\ stack = <<Frame("visit", tree, 0)>>
    /\ lines = <<>>
    /\ indent = 0
    /\ imports = EmptyImports
    /\ has_main = FALSE
    /\ status = "running"
    /\ dst = [exists |-> FALSE, text |-> ""]
    /\ input = <<>>
    /\ result = <<>>

\* an exception leaves every handler on the stack and transpile_file itself
Raise ==
    /\ status' = "failed"
    /\ stack' = <<>>
    /\ UNCHANGED <<lines, indent, imports, has_main, dst>>

VisitModule ==
    /\ Visiting("Module")
    /\ stack' = Visits(Top.node.body, indent) \o <<Frame("Module.end", Top.node, indent)>> \o Rest
    /\ UNCHANGED <<tree, lines, indent, imports, has_main, status, dst, input, result>>

\* visit_Module once its loop is over
ModuleEnd ==
    /\ Running /\ Top.op = "Module.end"
    /\ lines' = IF has_main THEN emit(lines, indent, "main()") ELSE lines
    /\ stack' = Rest
    /\ status' = "done"
    /\ UNCHANGED <<tree, indent, imports, has_main, dst, input, result>>

\* dst.write_text("\n".join(compiler.lines))
WriteText ==
    /\ status = "done"
    /\ dst' = [exists |-> TRUE, text |-> Join(lines, "\n")]
    /\ status' = "written"
    /\ UNCHANGED <<tree, stack, lines, indent, imports, has_main, input, result>>

VisitImportFrom ==
    /\ Visiting("ImportFrom")
    /\ imports' = IF Top.node.module = NoneVal THEN imports
                  ELSE BindImportFrom(imports, Top.node.module, Top.node.names)
    /\ stack' = Rest
    /\ UNCHANGED <<tree, lines, indent, has_main, status, dst, input, result>>

VisitImport ==
    /\ Visiting("Import")
    /\ imports' = BindImport(imports, Top.node.names)
    /\ stack' = Rest
    /\ UNCHANGED <<tree, lines, indent, has_main, status, dst, input, result>>

VisitExpr ==
    /\ Visiting("Expr")
    /\ LET value == Expr(Top.node.value, imports)
       IN  IF ~value.ok THEN Raise
           ELSE /\ lines' = emit(lines, indent, value.src)
                /\ stack' = Rest
                /\ UNCHANGED <<indent, imports, has_main, status, dst>>
    /\ UNCHANGED <<tree, input, result>>

\* a visit_Assign that takes the first target and ignores the others
VisitAssign_first_target ==
    /\ Visiting("Assign")
    /\ LET target == Expr(Top.node.targets[1], imports)
           value  == Expr(Top.node.value, imports)
       IN  IF ~target.ok \/ ~value.ok THEN Raise
           ELSE /\ lines' = emit(lines, indent, "local " \o target.src \o " = " \o value.src)
                /\ stack' = Rest
                /\ UNCHANGED <<indent, imports, has_main, status, dst>>
    /\ UNCHANGED <<tree, input, result>>

VisitAssign ==
    /\ Visiting("Assign")
    /\ IF Len(Top.node.targets) # 1 THEN Raise
       ELSE LET target == Expr(Top.node.targets[1], imports)
                value  == Expr(Top.node.value, imports)
            IN  IF ~target.ok \/ ~value.ok THEN Raise
                ELSE /\ lines' = emit(lines, indent, "local " \o target.src \o " = " \o value.src)
                     /\ stack' = Rest
                     /\ UNCHANGED <<indent, imports, has_main, status, dst>>
    /\ UNCHANGED <<tree, input, result>>

\* visit_If up to its loop over node.body
VisitIf ==
    /\ Visiting("If")
    /\ LET cond == Expr(Top.node.test, imports)
       IN  IF ~cond.ok THEN Raise
           ELSE /\ lines' = emit(lines, indent, "if " \o cond.src \o " then")
                /\ indent' = indent + 1
                /\ stack' = Visits(Top.node.body, indent + 1)
                            \o <<Frame("If.body", Top.node, indent)>> \o Rest
                /\ UNCHANGED <<imports, has_main, status, dst>>
    /\ UNCHANGED <<tree, input, result>>

\* visit_If from the end of the loop over node.body: with an orelse up to
\* the loop over it, without one to the end
VisitIf_AfterBody ==
    /\ Running /\ Top.op = "If.body"
    /\ IF Top.node.orelse # <<>>
       THEN /\ lines' = emit(lines, indent - 1, "else")
            /\ indent' = (indent - 1) + 1
            /\ stack' = Visits(Top.node.orelse, (indent - 1) + 1)
                        \o <<Frame("If.orelse", Top.node, Top.depth)>> \o Rest
       ELSE /\ lines' = emit(lines, indent - 1, "end")
            /\ indent' = indent - 1
            /\ stack' = Rest
    /\ UNCHANGED <<tree, imports, has_main, status, dst, input, result>>

\* visit_If from the end of the loop over node.orelse
VisitIf_AfterOrelse ==
    /\ Running /\ Top.op = "If.orelse"
    /\ indent' = indent - 1
    /\ lines' = emit(lines, indent - 1, "end")
    /\ stack' = Rest
    /\ UNCHANGED <<tree, imports, has_main, status, dst, input, result>>

\* visit_While up to its loop over node.body
VisitWhile ==
    /\ Visiting("While")
    /\ LET cond == Expr(Top.node.test, imports)
       IN  IF ~cond.ok THEN Raise
           ELSE /\ lines' = emit(lines, indent, "while " \o cond.src \o " do")
                /\ indent' = indent + 1
                /\ stack' = Visits(Top.node.body, indent + 1)
                            \o <<Frame("While.body", Top.node, indent)>> \o Rest
                /\ UNCHANGED <<imports, has_main, status, dst>>
    /\ UNCHANGED <<tree, input, result>>

\* a visit_While that closes the block without stepping the depth back
VisitWhile_AfterBody_no_dedent ==
    /\ Running /\ Top.op = "While.body"
    /\ indent' = indent
    /\ lines' = emit(lines, indent, "end")
    /\ stack' = Rest
    /\ UNCHANGED <<tree, imports, has_main, status, dst, input, result>>

\* visit_While from the end of its loop
VisitWhile_AfterBody ==
    /\ Running /\ Top.op = "While.body"
    /\ indent' = indent - 1
    /\ lines' = emit(lines, indent - 1, "end")
    /\ stack' = Rest
    /\ UNCHANGED <<tree, imports, has_main, status, dst, input, result>>

\* [arg.arg for arg in node.args.args]
ArgNames(arguments) == [i \in 1..Len(arguments.args) |-> Str(arguments.args[i].arg)]

\* visit_FunctionDef up to its loop over node.body
VisitFunctionDef ==
    /\ Visiting("FunctionDef")
    /\ LET args_src == Join(ArgNames(Top.node.args), ", ")
       IN  lines' = emit(lines, indent, "function " \o Str(Top.node.name) \o "(" \o args_src \o ")")
    /\ indent' = indent + 1
    /\ stack' = Visits(Top.node.body, indent + 1)
                \o <<Frame("FunctionDef.body", Top.node, indent)>> \o Rest
    /\ UNCHANGED <<tree, imports, has_main, status, dst, input, result>>

\* visit_FunctionDef from the end of its loop
VisitFunctionDef_AfterBody ==
    /\ Running /\ Top.op = "FunctionDef.body"
    /\ indent' = indent - 1
    /\ lines' = emit(lines, indent - 1, "end")
    /\ has_main' = IF Top.node.name = MainName THEN TRUE ELSE has_main
    /\ stack' = Rest
    /\ UNCHANGED <<tree, imports, status, dst, input, result>>

\* the child statements of a node, in the order of its fields; the child
\* expressions are left out: no visit_ method exists for an expression
\* kind, so walking them calls no handler and changes nothing
ChildStatements(node) ==
    CASE node.kind = "For" -> node.body \o node.orelse
      [] OTHER -> <<>>

\* ast.NodeVisitor.visit on a kind without a visit_ method: generic_visit,
\* which visits the children
GenericVisit ==
    /\ Running /\ Top.op = "visit" /\ Top.node.kind \notin HandledKinds
    /\ stack' = Visits(ChildStatements(Top.node), indent) \o Rest
    /\ UNCHANGED <<tree, lines, indent, imports, has_main, status, dst, input, result>>

Next ==
    \/ VisitModule
    \/ ModuleEnd
    \/ WriteText
    \/ VisitImportFrom
    \/ VisitImport
    \/ VisitExpr
    \/ VisitAssign
    \/ VisitIf
    \/ VisitIf_AfterBody
    \/ VisitIf_AfterOrelse
    \/ VisitWhile
    \/ VisitWhile_AfterBody
    \/ VisitFunctionDef
    \/ VisitFunctionDef_AfterBody
    \/ GenericVisit

Spec == Init /\ [][Next]_vars

-----------------------------------------------------------------------------
(* Properties *)

\* the handler frames: each stands for a block opened and not yet closed
HandlerOps == {"If.body", "If.orelse", "While.body", "FunctionDef.body"}

\* the node kinds section 3 of the specification enumerates, as statements
EnumeratedKinds ==
    {"Module", "Assign", "If", "While", "FunctionDef", "Expr", "ImportFrom", "Import"}

\* C1: whenever the translator visits a node whose kind is not one of the
\* enumerated kinds, the translation fails at once (it never goes on,
\* skipping the node or translating only its children).
C1_UnsupportedKindFails ==
    [][ (Running /\ Top.op = "visit" /\ Top.node.kind \notin EnumeratedKinds)
        => status' = "failed" ]_vars

\* a function named main is defined at the top level of the Module
TopLevelMain ==
    \E i \in DOMAIN tree.body :
        tree.body[i].kind = "FunctionDef" /\ tree.body[i].name = MainName

\* C2: when the translation of a Module succeeds, its last emitted line is
\* `main()` at depth zero if and only if a function named main is defined at
\* the top level of the Module.
C2_MainCallIffTopLevelMain ==
    status = "done" =>
        ((lines # <<>> /\ lines[Len(lines)] = "main()") <=> TopLevelMain)

\* the depth of the innermost block still open, plus one; zero outside
\* every block
RECURSIVE BodyDepth(_)
BodyDepth(frames) ==
    IF frames = <<>> THEN 0
    ELSE IF frames[1].op \in HandlerOps THEN frames[1].depth + 1
    ELSE BodyDepth(Tail(frames))

\* the depth is never negative, is zero when the Module is done, and while
\* a statement is about to be translated it is the depth its body was
\* entered with, which is one more than the depth of the enclosing statement
C3State ==
    /\ indent >= 0
    /\ (status \in {"done", "written"} => indent = 0)
    /\ (Running /\ Top.op = "visit" => indent = Top.depth /\ indent = BodyDepth(stack))

\* a step that completes a statement leaves the depth the statement was
\* entered with; a step that opens a body goes one deeper
C3Step ==
    /\ (Running /\ Top.op = "visit" /\ status' # "failed"
            /\ Top.node.kind \in {"Assign", "Expr", "Import", "ImportFrom"}
        => indent' = indent)
    /\ (Running /\ Top.op = "visit" /\ status' # "failed"
            /\ Top.node.kind \in {"If", "While", "FunctionDef"}
        => indent' = indent + 1)
    /\ (Running /\ Top.op \in {"If.orelse", "While.body", "FunctionDef.body"}
        => indent' = Top.depth)
    /\ (Running /\ Top.op = "If.body"
        => indent' = IF Top.node.orelse = <<>> THEN Top.depth ELSE Top.depth + 1)

\* C3: the depth after a completed statement equals the depth before it; it
\* starts at zero, is never negative, is one more than the enclosing depth
\* inside an if/else/while/function body, and is zero when the Module is done.
C3_IndentationBalanced == [](C3State) /\ [][C3Step]_vars

\* a Module with a block inside a block was translated to the end
C3_Witness ==
    /\ status = "done"
    /\ indent = 0
    /\ \E i \in DOMAIN lines : lines[i] = "    end"

\* C4: when a nested body fails partway, the depth is back at the value it
\* had before the enclosing statement was entered; the failure leaves every
\* enclosing statement, so that value is the zero the run began with.
C4_DepthRestoredOnFailure ==
    status = "failed" => indent = 0

\* only bare positional parameter names
PlainArguments(a) ==
    a.vararg = NoneVal /\ a.kwonlyargs = <<>> /\ a.defaults = <<>>

\* C5: a FunctionDef whose parameters are not all bare positional names
\* never gets its `function` header emitted: no handler of such a
\* definition is ever waiting for its body.
C5_NonPlainParametersFail ==
    \A i \in DOMAIN stack :
        stack[i].op = "FunctionDef.body" => PlainArguments(stack[i].node.args)

\* the binding map a resolver leaves after scanning the whole tree in
\* source order, the last binding of a name winning
RECURSIVE ResolveImports(_, _)
ResolveImports(stmts, imp) ==
    IF stmts = <<>> THEN imp
    ELSE LET s == stmts[1]
             after ==
                 CASE s.kind = "ImportFrom" -> BindImportFrom(imp, s.module, s.names)
                   [] s.kind = "Import" -> BindImport(imp, s.names)
                   [] s.kind \in {"If", "For"} ->
                        ResolveImports(s.orelse, ResolveImports(s.body, imp))
                   [] s.kind \in {"While", "FunctionDef"} -> ResolveImports(s.body, imp)
                   [] OTHER -> imp
         IN  ResolveImports(Tail(stmts), after)

\* C6: an expression statement is translated as it would be under the
\* bindings of the whole tree, wherever the import statements stand
\* relative to it.
C6_RewriteIndependentOfImportPosition ==
    Visiting("Expr") =>
        Expr(Top.node.value, imports)
            = Expr(Top.node.value, ResolveImports(tree.body, EmptyImports))

\* the base of an attribute access is a bare identifier bound by an import
\* whose origin is cc_lib
BoundToCcLib(node, imp) ==
    /\ node.value.kind = "Name"
    /\ \E n \in DOMAIN imp : n = node.value.id /\ imp[n][1] = CcLib

\* C7: an attribute access is emitted as `base.member`, the member run
\* through the naming converter exactly when the base is a bare identifier
\* bound by an import from cc_lib, and unchanged in every other case.
C7_AttributeRewriteRule ==
    (status = "returned" /\ input.kind = "Attribute") =>
        LET base == Expr(input.value, imports)
        IN  /\ base.ok =>
                /\ result.ok
                /\ result.src = base.src \o "."
                       \o (IF BoundToCcLib(input, imports)
                           THEN Str(snake_to_camel(input.attr))
                           ELSE Str(input.attr))
            /\ input = Attribute(Name(Device), GetNames)
                   => result.src = "device.get_names"
            /\ (input = Attribute(Name(Peripheral), GetNames)
                    /\ ~BoundToCcLib(input, imports))
                   => result.src = "peripheral.get_names"
            /\ (input = Attribute(Name(Peripheral), GetNames)
                    /\ BoundToCcLib(input, imports))
                   => result.src = "peripheral.getNames"

\* peripheral.get_names, peripheral imported from cc_lib, was translated
C7_Witness ==
    /\ status = "returned"
    /\ input = Attribute(Name(Peripheral), GetNames)
    /\ BoundToCcLib(input, imports)
    /\ result = Ok("peripheral.getNames")

\* C8: translating an Assign with more than one target fails the run, and a
\* failed run writes no output, whatever lines were emitted before.
C8_MultiTargetAssignAborts ==
    /\ [](status = "failed" => ~dst.exists)
    /\ [](dst.exists => status = "written")
    /\ [][ (Visiting("Assign") /\ Len(Top.node.targets) > 1)
           => (status' = "failed" /\ stack' = <<>> /\ dst' = dst) ]_vars

\* x = 1 was emitted, x = x = 1 failed the run, nothing was written
C8_Witness ==
    /\ tree = Module(<<SingleAssign, MultiAssign>>)
    /\ status = "failed"
    /\ lines = <<"local x = 1">>
    /\ ~dst.exists

\* the conversion as the specification words it: the first segment, then
\* each later segment with its first character upper-cased and the rest
\* left as written
CapitalizeKeepRest(p) ==
    IF p = <<>> THEN <<>>
    ELSE <<Upper(p[1])>> \o Tail(p)

RECURSIVE JoinKeepRest(_)
JoinKeepRest(parts) ==
    IF parts = <<>> THEN <<>>
    ELSE CapitalizeKeepRest(parts[1]) \o JoinKeepRest(Tail(parts))

\* C9: snake_to_camel returns the first segment followed by each later
\* segment with its first character upper-cased and the rest unchanged.
C9_RestOfSegmentUnchanged ==
    status = "returned" =>
        result = Split(input)[1] \o JoinKeepRest(Tail(Split(input)))

\* the operator table of section 4.3
LuaBinarySymbol(op) ==
    CASE op = "Add" -> "+" [] op = "Sub" -> "-" [] op = "Mult" -> "*" [] op = "Div" -> "/"
LuaCompareSymbol(op) ==
    CASE op = "Eq" -> "==" [] op = "NotEq" -> "~=" [] op = "Lt" -> "<"
      [] op = "LtE" -> "<=" [] op = "Gt" -> ">" [] op = "GtE" -> ">="

\* C10: a supported BinOp, unary minus or single-operator Compare is emitted
\* as its translated operands and the mapped operator inside one pair of
\* parentheses; any other binary or unary operator, and any Compare with
\* more than one operator, fails.
C10_OperatorsParenthesized ==
    status = "returned" =>
        /\ input.kind = "BinOp" =>
              LET l == Expr(input.left, imports)
                  r == Expr(input.right, imports)
              IN  (l.ok /\ r.ok) =>
                     IF input.op \in {"Add", "Sub", "Mult", "Div"}
                     THEN result = Ok("(" \o l.src \o " " \o LuaBinarySymbol(input.op)
                                          \o " " \o r.src \o ")")
                     ELSE ~result.ok
        /\ input.kind = "UnaryOp" =>
              LET o == Expr(input.operand, imports)
              IN  o.ok => IF input.op = "USub"
                          THEN result = Ok("(-" \o o.src \o ")")
                          ELSE ~result.ok
        /\ input.kind = "Compare" =>
              IF Len(input.ops) > 1 THEN ~result.ok
              ELSE LET l == Expr(input.left, imports)
                       r == Expr(input.comparators[1], imports)
                   IN  (l.ok /\ r.ok) =>
                          IF input.ops[1] \in {"Eq", "NotEq", "Lt", "LtE", "Gt", "GtE"}
                          THEN result = Ok("(" \o l.src \o " " \o LuaCompareSymbol(input.ops[1])
                                               \o " " \o r.src \o ")")
                          ELSE ~result.ok

\* x != 1 was translated
C10_Witness ==
    /\ status = "returned"
    /\ input = Compare(Name(XName), <<"NotEq">>, <<Constant(IntValue(1))>>)
    /\ result = Ok("(x ~= 1)")

=============================================================================
